---- MODULE Spec2Model ----
(***************************************************************************)
(* A model of src/index.js, the ServerlessSecretBaker plugin: the          *)
(* constructor with its CLI parameter reader, the secrets configuration    *)
(* normalizer, the SSM lookup wrapper, the secrets file writer and the two *)
(* lifecycle handlers (packageSecrets, cleanupPackageSecrets).             *)
(*                                                                         *)
(* JavaScript values are tagged records [t |-> <typeof>, v |-> <payload>]. *)
(* Command line strings are sequences of one-symbol strings; the symbol    *)
(* "secret-baker-cleanup" abbreviates that run of ordinary characters.     *)
(*                                                                         *)
(* The host awaits the promise of a hook before it fires the next one, so  *)
(* a handler starts only when none is in flight (pc = "idle"); the steps   *)
(* of packageSecrets are its awaits.                                       *)
(*                                                                         *)
(* getSecretsConfig reads the declaration through the bare identifier      *)
(* `custom`, which the module never declares: where no global of that name *)
(* exists the read throws ReferenceError, where one exists the read goes   *)
(* to it. Both are modelled: `custom` is undeclared, or it names the       *)
(* service's own secretBaker block.                                        *)
(***************************************************************************)
EXTENDS Integers, Sequences, FiniteSets

(* ------------------------------ bounds -------------------------------- *)

\* Longest command line (all --param items together, separators included).
MaxChars == 7

\* Most entries of a secrets declaration.
MaxSecrets == 2

\* Longest include list from which the host still fires a package trigger.
MaxInclude == 2

(* --------------------------- JavaScript values ------------------------ *)

Undefined == [t |-> "undefined"]

Str(s) == [t |-> "string", v |-> s]

Num(n) == [t |-> "number", v |-> n]

Arr(items) == [t |-> "array", v |-> items]

\* A plain object: its own enumerable entries <<key, value>> in iteration order.
Obj(entries) == [t |-> "object", v |-> entries]

\* ToBoolean, as used by ||, && and !.
Truthy(x) ==
    CASE x.t = "undefined" -> FALSE
      [] x.t = "string" -> x.v # ""
      [] x.t = "number" -> x.v # 0
      [] OTHER -> TRUE

\* a || b
OrElse(a, b) == IF Truthy(a) THEN a ELSE b

(* ------------------------------ strings ------------------------------- *)

\* All sequences over S of length at most n.
SeqsUpTo(S, n) == UNION {[1..k -> S] : k \in 0..n}

\* String.prototype.split(sep) for a one-character separator.
RECURSIVE Split(_, _)
Split(s, sep) ==
    IF \A i \in 1..Len(s) : s[i] # sep THEN <<s>>
    ELSE LET p == CHOOSE i \in 1..Len(s) :
                      s[i] = sep /\ \A j \in 1..(i - 1) : s[j] # sep
         IN  <<SubSeq(s, 1, p - 1)>> \o Split(SubSeq(s, p + 1, Len(s)), sep)

\* The line terminators the regex dot refuses (of them, "\n" and "\r").
IsLineTerminator(c) == c \in {"\n", "\r"}

IsWhiteSpace(c) == c \in {" ", "\t"} \/ IsLineTerminator(c)

\* String.prototype.trimEnd
RECURSIVE TrimEnd(_)
TrimEnd(s) ==
    IF s # <<>> /\ IsWhiteSpace(s[Len(s)])
    THEN TrimEnd(SubSeq(s, 1, Len(s) - 1))
    ELSE s

(* ------------------------ optionsParamsRegex -------------------------- *)

NoMatch == [matched |-> FALSE]

\* The last index of the longest run of characters satisfying the class
\* that starts at index i (i - 1 when s[i] is not in the class).
RECURSIVE RunEnd(_, _, _)
RunEnd(s, i, eq) ==
    IF i <= Len(s) /\ (IF eq THEN s[i] # "=" ELSE ~IsLineTerminator(s[i]))
    THEN RunEnd(s, i + 1, eq)
    ELSE i - 1

\* /(?<key>[^=]+)=(?<value>.+)/ tried at start index i: a greedy non-empty
\* run of non-"=" characters, a literal "=", a greedy non-empty run of
\* characters that are not line terminators. Giving characters of the key
\* back never helps: the character after a shorter key is not "=".
MatchAt(s, i) ==
    LET e == RunEnd(s, i, TRUE)
        f == RunEnd(s, e + 2, FALSE)
    IN  IF e >= i /\ e + 1 <= Len(s) /\ s[e + 1] = "=" /\ f >= e + 2
        THEN [matched |-> TRUE,
              key     |-> SubSeq(s, i, e),
              value   |-> SubSeq(s, e + 2, f)]
        ELSE NoMatch

\* String.prototype.match with the (unanchored, non-global) regex: the
\* match at the leftmost start index that has one, else null.
RECURSIVE MatchFrom(_, _)
MatchFrom(s, i) ==
    IF i > Len(s) THEN NoMatch
    ELSE IF MatchAt(s, i).matched THEN MatchAt(s, i)
    ELSE MatchFrom(s, i + 1)

RegexMatch(s) == MatchFrom(s, 1)

(* ----------------------------- readParams ----------------------------- *)

\* The object resultParams is a function from its keys; an assignment to a
\* key that is present replaces its entry.
SetParam(obj, key, entry) ==
    [k \in DOMAIN obj \cup {key} |-> IF k = key THEN entry ELSE obj[k]]

NoParams == [k \in {} |-> Undefined]

\* readParams without the trimEnd() call.
ParamEntryUntrimmed(res) == [value |-> res.value, type |-> "cli"]

\* The entry readParams stores for a match.
ParamEntry(res) == [value |-> TrimEnd(res.value), type |-> "cli"]

\* The inner loop over item.split(","); acc is [threw, params].
RECURSIVE ReadPieces(_, _)
ReadPieces(pieces, acc) ==
    IF pieces = <<>> \/ acc.threw THEN acc
    ELSE LET res == RegexMatch(Head(pieces))
         IN  IF ~res.matched
             THEN [threw |-> TRUE, params |-> acc.params]
             ELSE ReadPieces(Tail(pieces),
                             [threw  |-> FALSE,
                              params |-> SetParam(acc.params, res.key,
                                                  ParamEntry(res))])

RECURSIVE ReadItems(_, _)
ReadItems(items, acc) ==
    IF items = <<>> \/ acc.threw THEN acc
    ELSE ReadItems(Tail(items), ReadPieces(Split(Head(items), ","), acc))

\* readParams(params): [threw |-> BOOLEAN, params |-> resultParams]; threw
\* is the TypeError of res.groups when the match is null.
readParams(params) == ReadItems(params, [threw |-> FALSE, params |-> NoParams])

\* params[key]
GetParam(obj, key) == IF key \in DOMAIN obj THEN Obj(obj[key]) ELSE Undefined

(* ---------------------------- constants ------------------------------- *)

defaultSecretsFile == "secret-baker-secrets.json"

SuppressKey == <<"secret-baker-cleanup">>

pkgHooks ==
    [h \in {"before:package:createDeploymentArtifacts",
            "before:deploy:function:packageFunction",
            "before:offline:start",
            "before:invoke:local:invoke"} |-> "packageSecrets"]

cleanupHooks ==
    [h \in {"after:package:createDeploymentArtifacts",
            "after:deploy:function:packageFunction",
            "before:offline:start:end",
            "after:invoke:local:invoke"} |-> "cleanupPackageSecrets"]

\* { ...a, ...b }
Spread(a, b) ==
    [h \in DOMAIN a \cup DOMAIN b |-> IF h \in DOMAIN b THEN b[h] ELSE a[h]]

NoHooks == [h \in {} |-> ""]

\* shouldCleanup decided by the value of the parameter, not its presence.
ShouldCleanupByValue(params) ==
    ~(SuppressKey \in DOMAIN params /\ params[SuppressKey].value # <<>>)

\* const shouldCleanup = !params["secret-baker-cleanup"]
ShouldCleanup(params) == ~Truthy(GetParam(params, SuppressKey))

\* this.hooks
HooksFor(params) ==
    IF ShouldCleanup(params) THEN Spread(pkgHooks, cleanupHooks) ELSE pkgHooks

(* ------------------------- host configuration ------------------------- *)

Names == {"A", "B"}

\* A list element that is not a string is an object the code passes through.
ObjItems == {Obj(<<<<"name", Str("A")>>, <<"path", Str("B")>>>>)}

ListItems == {Str(n) : n \in Names} \cup ObjItems

Keys(entries) == {entries[i][1] : i \in DOMAIN entries}

\* Entry lists of plain objects: no key twice.
Mappings ==
    {m \in SeqsUpTo({<<k, Str(p)>> : k \in Names, p \in Names}, MaxSecrets) :
        Cardinality(Keys(m)) = Len(m)}

Declarations ==
    {Undefined, Str(""), Str("abc"), Num(0), Num(7)}
        \cup {Arr(l) : l \in SeqsUpTo(ListItems, MaxSecrets)}
        \cup {Obj(m) : m \in Mappings}

FilePaths == {Undefined, Str("custom.json")}

\* The value of service.custom.secretBaker when it is set.
SecretBakers == [secrets : Declarations, filePath : FilePaths]

\* service.custom or service.custom.secretBaker is not set.
NoSecretBaker == [absent |-> TRUE]

\* The bare identifier `custom` names no binding.
Undeclared == [undeclared |-> TRUE]

(* ------------------------------ state --------------------------------- *)

VARIABLES
    optionsParam,   \* options.param || [], the raw --param items
    serviceCustom,  \* this.serverless.service.custom.secretBaker
    custom,         \* what the bare identifier `custom` is bound to
    pc,             \* "new", "threw", "idle", "awaitSsm", "awaitWrite"
    cliParams,      \* the constructor's const params, as readParams returned it
    hooks,          \* this.hooks: hook name -> handler
    secretsFile,    \* this.secretsFile
    include,        \* this.serverless.service.package.include
    files,          \* the filesystem: path -> file
    pending,        \* writeSecretToFile: providerSecrets not yet looked up
    secrets,        \* writeSecretToFile: the object being accumulated
    writeReq,       \* the arguments of the fs.writeFileAsync call in flight
    requests,       \* history: the SSM requests of the last handler, answered
    lastLog,        \* the last message given to serverless.cli.log
    lastError,      \* how the last handler ended: NoError or what it threw
    lastOp,         \* the handler that ran last
    filesBefore,    \* history: files when the last handler started
    includeBefore   \* history: include when the last handler started

vars == <<optionsParam, serviceCustom, custom, pc, cliParams, hooks, secretsFile, include,
          files, pending, secrets, writeReq, requests, lastLog, lastError,
          lastOp, filesBefore, includeBefore>>

config == <<optionsParam, serviceCustom, custom>>

object == <<cliParams, hooks, secretsFile>>

(* ---------------------------- filesystem ------------------------------ *)

Paths == {defaultSecretsFile, "custom.json"}

NoFile == [exists |-> FALSE]

File(data) == [exists |-> TRUE, data |-> data]

\* A file some earlier run or the user left behind.
OldFile == File(<<"old">>)

\* fs.existsSync(path)
existsSync(fs, path) == fs[path].exists

\* fs.unlinkSync(path)
unlinkSync(fs, path) == [fs EXCEPT ![path] = NoFile]

\* The file a completed fs.writeFile(path, data) leaves.
writeFile(fs, path, data) == [fs EXCEPT ![path] = File(data)]

\* How an fs.writeFileAsync call ends: done, refused before the file was
\* opened, or failed after the file was opened (and truncated).
WriteOutcomes == {"ok", "EACCES", "ENOSPC"}

(* ------------------------------ errors -------------------------------- *)

NoError == [kind |-> "none"]

ErrorOf(kind, message) == [kind |-> kind, message |-> message]

ConfigError ==
    ErrorOf("serverless.classes.Error",
            <<"Secret Baker configuration contained an unexpected value.">>)

(* ------------------------- getSecretsConfig --------------------------- *)

\* obj[key] for a plain object.
GetProp(obj, key) ==
    IF key \in Keys(obj.v)
    THEN obj.v[CHOOSE i \in DOMAIN obj.v : obj.v[i][1] = key][2]
    ELSE Undefined

\* obj[key] = value on the entry list of a plain object: an own key keeps
\* its place, a new key goes last.
SetProp(entries, key, value) ==
    IF key \in Keys(entries)
    THEN [i \in DOMAIN entries |->
             IF entries[i][1] = key THEN <<key, value>> ELSE entries[i]]
    ELSE Append(entries, <<key, value>>)

\* { name: n, path: p }
SecretRef(n, p) == Obj(<<<<"name", n>>, <<"path", p>>>>)

\* this.serverless.service.custom && this.serverless.service.custom.secretBaker
\*     && custom.secretBaker.<field>
\* The third operand is evaluated only when the first two are truthy, and
\* it reads the bare identifier `custom`, not this.serverless.service.custom.
ReadSecretBaker(svc, cst, field) ==
    IF svc = NoSecretBaker THEN [threw |-> FALSE, value |-> Undefined]
    ELSE IF cst = Undeclared THEN [threw |-> TRUE, value |-> Undefined]
    ELSE [threw |-> FALSE, value |-> cst[field]]

ReferenceError == ErrorOf("ReferenceError", <<"custom is not defined">>)

\* secrets.map((item) => typeof item === 'string' ? {name: item, path: item} : item)
MapItems(items) ==
    [i \in DOMAIN items |->
        IF items[i].t = "string" THEN SecretRef(items[i], items[i])
        ELSE items[i]]

\* Object.entries(secrets).map(([name, path]) => ({name, path}))
MapEntries(entries) ==
    [i \in DOMAIN entries |-> SecretRef(Str(entries[i][1]), entries[i][2])]

\* getSecretsConfig() with this.secretsFile = sf:
\* [error, secretsFile (this.secretsFile afterwards), list (the return value)].
getSecretsConfig(svc, cst, sf) ==
    LET rs  == ReadSecretBaker(svc, cst, "secrets")
        rf  == ReadSecretBaker(svc, cst, "filePath")
        sec == OrElse(rs.value, Arr(<<>>))
        customSecretsFile == OrElse(rf.value, Undefined)
        sf2 == IF Truthy(customSecretsFile) THEN customSecretsFile.v ELSE sf
    IN  IF rs.threw
        THEN [error |-> ReferenceError, secretsFile |-> sf, list |-> <<>>]
        ELSE IF sec.t = "array"
        THEN [error |-> NoError, secretsFile |-> sf2, list |-> MapItems(sec.v)]
        ELSE IF sec.t = "object"
        THEN [error |-> NoError, secretsFile |-> sf2, list |-> MapEntries(sec.v)]
        ELSE [error |-> ConfigError, secretsFile |-> sf2, list |-> <<>>]

(* --------------------------- JSON.stringify --------------------------- *)

\* JSON text is a sequence of tokens; a string literal is three of them.
RECURSIVE JSONstringify(_), StringifyMembers(_)
JSONstringify(x) ==
    IF x.t = "string" THEN <<"\"", x.v, "\"">>
    ELSE <<"{">> \o StringifyMembers(
             SelectSeq(x.v, LAMBDA e : e[2].t # "undefined")) \o <<"}">>

StringifyMembers(entries) ==
    IF entries = <<>> THEN <<>>
    ELSE <<"\"", entries[1][1], "\"", ":">> \o JSONstringify(entries[1][2])
         \o (IF Len(entries) > 1 THEN <<",">> ELSE <<>>)
         \o StringifyMembers(Tail(entries))

(* ------------------------ getParameterFromSsm ------------------------- *)

\* A response.Parameter of the backend.
Parameter(value, arn) == [t |-> "object", Value |-> Str(value), ARN |-> Str(arn)]

Found(value, arn) ==
    [ok |-> TRUE, Parameter |-> Parameter(value, arn),
     statusCode |-> Undefined, message |-> ""]

Failed(statusCode, message) ==
    [ok |-> FALSE, Parameter |-> Undefined,
     statusCode |-> statusCode, message |-> message]

\* What provider.request("SSM", "getParameter", ...) can settle with.
Answers ==
    {Found("v1", "arn1"), Found("v2", "arn2")}
        \cup {Failed(Num(400), "ParameterNotFound"),
              Failed(Num(500), "InternalServerError"),
              Failed(Undefined, "connect ETIMEDOUT")}

\* The not-found test against 404 instead of 400.
NotFoundStatus404(statusCode) == statusCode = Num(404)

\* The not-found test that also takes a missing status for not found.
NotFoundOrNoStatus(statusCode) == statusCode \in {Num(400), Undefined}

\* The negation of the test err.statusCode !== 400.
NotFoundStatus(statusCode) == statusCode = Num(400)

\* How the promise getParameterFromSsm returns settles for an answer.
getParameterFromSsm(ans) ==
    IF ans.ok
    THEN [rejected |-> FALSE, error |-> NoError, value |-> ans.Parameter]
    ELSE IF ~NotFoundStatus(ans.statusCode)
    THEN [rejected |-> TRUE,
          error    |-> ErrorOf("serverless.classes.Error", <<ans.message>>),
          value    |-> Undefined]
    ELSE [rejected |-> FALSE, error |-> NoError, value |-> Undefined]

(* ----------------------------- constructor ---------------------------- *)

\* new ServerlessSecretBaker(serverless, options); readParams throwing
\* leaves no instance.
Construct ==
    /\ pc = "new"
    /\ LET r == readParams(optionsParam)
       IN  IF r.threw
           THEN /\ pc' = "threw"
                /\ lastError' = ErrorOf("TypeError", <<"res is null">>)
                /\ UNCHANGED <<cliParams, hooks, secretsFile>>
           ELSE /\ pc' = "idle"
                /\ cliParams' = r.params
                /\ hooks' = HooksFor(r.params)
                /\ secretsFile' = defaultSecretsFile
                /\ UNCHANGED lastError
    /\ lastOp' = "constructor"
    /\ UNCHANGED <<config, include, files, pending, secrets, writeReq,
                   requests, lastLog, filesBefore, includeBefore>>

(* ---------------------- packageSecrets, step by step ------------------ *)

NoWrite == [path |-> "", data |-> <<>>, issued |-> FALSE]

\* String(x) for a property key or a template literal.
StringOf(x) == IF x.t = "string" THEN x.v ELSE x.t

\* The head of the for-of loop of writeSecretToFile: with secrets left, the
\* next lookup is awaited; with none left, fs.writeFileAsync is called with
\* this.secretsFile and the serialized object.
LoopHead(pend, secs, sf) ==
    /\ pending' = pend
    /\ secrets' = secs
    /\ IF pend = <<>>
       THEN /\ pc' = "awaitWrite"
            /\ writeReq' = [path |-> sf, data |-> JSONstringify(Obj(secs)),
                            issued |-> TRUE]
       ELSE /\ pc' = "awaitSsm"
            /\ writeReq' = NoWrite

\* Some hook the host can fire is bound to the handler. Every hook bound to
\* a handler runs the same code, so which one fired leaves no trace.
Registered(handler) == \E h \in DOMAIN hooks : hooks[h] = handler

\* writeSecretToFile is over: its locals are gone and the host regains control.
Return ==
    /\ pc' = "idle"
    /\ pending' = <<>>
    /\ secrets' = <<>>
    /\ writeReq' = NoWrite

\* The host fires a hook bound to packageSecrets: the log line, the include
\* list made to exist, then writeSecretToFile up to its first await.
packageSecrets ==
    /\ pc = "idle"
    /\ Registered("packageSecrets")
    /\ Len(OrElse(include, Arr(<<>>)).v) < MaxInclude
    /\ lastOp' = "packageSecrets"
    /\ lastLog' = <<"Serverless Secrets beginning packaging process">>
    /\ filesBefore' = files
    /\ includeBefore' = include
    /\ include' = OrElse(include, Arr(<<>>))
    /\ requests' = <<>>
    /\ LET cfg == getSecretsConfig(serviceCustom, custom, secretsFile)
       IN  /\ secretsFile' = cfg.secretsFile
           /\ lastError' = cfg.error
           /\ IF cfg.error # NoError
              THEN Return
              ELSE LoopHead(cfg.list, <<>>, cfg.secretsFile)
    /\ UNCHANGED <<config, cliParams, hooks, files>>

\* The resolved secret with its two fields exchanged.
ResolvedSecretSwapped(param) ==
    Obj(<<<<"ciphertext", param.ARN>>, <<"arn", param.Value>>>>)

\* { ciphertext: param.Value, arn: param.ARN }
ResolvedSecret(param) ==
    Obj(<<<<"ciphertext", param.Value>>, <<"arn", param.ARN>>>>)

\* The awaited lookup of the first pending secret settles with ans; the
\* loop body runs and the loop goes on to its next await.
SsmRespond(ans) ==
    /\ pc = "awaitSsm"
    /\ LET name  == GetProp(Head(pending), "name")
           path  == GetProp(Head(pending), "path")
           res   == getParameterFromSsm(ans)
           param == res.value
       IN  /\ requests' = Append(requests,
                                 [Name |-> path, WithDecryption |-> FALSE,
                                  useCache |-> TRUE, answer |-> ans])
           /\ IF res.rejected
              THEN /\ lastError' = res.error
                   /\ Return
              ELSE IF ~Truthy(param)
              THEN /\ lastError' = ErrorOf("Error", <<"Unable to load Secret ",
                                                      StringOf(name)>>)
                   /\ Return
              ELSE /\ LoopHead(Tail(pending),
                               SetProp(secrets, StringOf(name),
                                       ResolvedSecret(param)),
                               secretsFile)
                   /\ UNCHANGED lastError
    /\ UNCHANGED <<config, object, include, files, lastLog, lastOp,
                   filesBefore, includeBefore>>

\* unshift in place of push.
PushFront(list, x) == Arr(<<x>> \o list.v)

\* this.serverless.service.package.include.push(this.secretsFile)
Push(list, x) == Arr(Append(list.v, x))

\* The fs.writeFileAsync call settles; on success packageSecrets pushes
\* this.secretsFile onto the include list.
WriteDone(outcome) ==
    /\ pc = "awaitWrite"
    /\ Return
    /\ CASE outcome = "ok" ->
              /\ files' = writeFile(files, writeReq.path, writeReq.data)
              /\ include' = Push(include, secretsFile)
              /\ UNCHANGED lastError
         [] outcome = "EACCES" ->
              /\ lastError' = ErrorOf("FsError", <<outcome>>)
              /\ UNCHANGED <<files, include>>
         [] outcome = "ENOSPC" ->
              /\ files' = writeFile(files, writeReq.path, <<>>)
              /\ lastError' = ErrorOf("FsError", <<outcome>>)
              /\ UNCHANGED include
    /\ UNCHANGED <<config, object, requests, lastLog, lastOp, filesBefore,
                   includeBefore>>

(* ------------------------ cleanupPackageSecrets ----------------------- *)

\* Cleanup of the default file whatever this.secretsFile is.
CleanupDefaultPath(sf) == defaultSecretsFile

\* The path cleanupPackageSecrets checks and unlinks.
CleanupPath(sf) == sf

\* The host fires a hook bound to cleanupPackageSecrets.
cleanupPackageSecrets ==
    /\ pc = "idle"
    /\ Registered("cleanupPackageSecrets")
    /\ lastOp' = "cleanupPackageSecrets"
    /\ lastLog' = <<"Cleaning up ", secretsFile>>
    /\ lastError' = NoError
    /\ filesBefore' = files
    /\ includeBefore' = include
    /\ files' = IF existsSync(files, CleanupPath(secretsFile))
                THEN unlinkSync(files, CleanupPath(secretsFile))
                ELSE files
    /\ requests' = <<>>
    /\ UNCHANGED <<config, object, pc, include, pending, secrets, writeReq>>

(* --------------------------- specifications --------------------------- *)

K == SuppressKey[1]

\* The --param lists of the lifecycle specification: none, one that names
\* the suppression key, one that is malformed.
CliArgs == {<<>>, <<<<"a", "=", "b", ",", K, "=", " ">>>>, <<<<"a">>>>}

InitHost ==
    /\ serviceCustom \in {NoSecretBaker} \cup SecretBakers
    /\ custom \in {Undeclared, serviceCustom}
    /\ include \in {Undefined, Arr(<<"handler.js">>)}
    /\ files \in {[p \in Paths |-> NoFile], [p \in Paths |-> OldFile]}

InitObject ==
    /\ pc = "new"
    /\ cliParams = NoParams
    /\ hooks = NoHooks
    /\ secretsFile = ""
    /\ pending = <<>>
    /\ secrets = <<>>
    /\ writeReq = NoWrite
    /\ requests = <<>>
    /\ lastLog = <<>>
    /\ lastError = NoError
    /\ lastOp = "none"
    /\ filesBefore = files
    /\ includeBefore = include

Init ==
    /\ optionsParam \in CliArgs
    /\ InitHost
    /\ InitObject

Next ==
    \/ Construct
    \/ packageSecrets
    \/ \E ans \in Answers : SsmRespond(ans)
    \/ \E outcome \in WriteOutcomes : WriteDone(outcome)
    \/ cleanupPackageSecrets

Spec == Init /\ [][Next]_vars

(* The reader of CLI parameters on its own: every --param list within     *)
(* MaxChars, and the constructor applied to it.                            *)

Chars == {"a", "=", ",", " ", "\n"}

\* The items of a --param list written in a row, ";" between neighbours.
Rows(n) == [1..n -> Chars \cup {";"}]

\* Every list of items over Chars whose items, with one separator between
\* neighbours, take at most MaxChars symbols; and the empty list.
InitParams ==
    /\ \/ optionsParam = <<>>
       \/ \E n \in 0..MaxChars : \E row \in Rows(n) :
              optionsParam = Split(row, ";")
    /\ serviceCustom = NoSecretBaker
    /\ custom = Undeclared
    /\ include = Undefined
    /\ files = [p \in Paths |-> NoFile]
    /\ InitObject

NextParams == Construct

SpecParams == InitParams /\ [][NextParams]_vars

(* ====================================================================== *)
(*                               Properties                               *)
(* ====================================================================== *)

(* ------------------------------- C10 ---------------------------------- *)

\* The comma-separated pairs of a --param list, in order.
RECURSIVE AllPieces(_)
AllPieces(raw) ==
    IF raw = <<>> THEN <<>>
    ELSE Split(Head(raw), ",") \o AllPieces(Tail(raw))

HasEq(piece) == \E i \in 1..Len(piece) : piece[i] = "="

\* The index of the first "=" of a pair that has one.
FirstEq(piece) ==
    CHOOSE i \in 1..Len(piece) :
        piece[i] = "=" /\ \A j \in 1..(i - 1) : piece[j] # "="

BeforeFirstEq(piece) == SubSeq(piece, 1, FirstEq(piece) - 1)

AfterFirstEq(piece) == SubSeq(piece, FirstEq(piece) + 1, Len(piece))

\* s without its trailing whitespace.
WithoutTrailingSpace(s) ==
    LET n == CHOOSE k \in 0..Len(s) :
                 /\ k = 0 \/ ~IsWhiteSpace(s[k])
                 /\ \A j \in (k + 1)..Len(s) : IsWhiteSpace(s[j])
    IN  SubSeq(s, 1, n)

\* s up to its first line terminator.
FirstLine(s) ==
    LET n == CHOOSE k \in 0..Len(s) :
                 /\ \A j \in 1..k : ~IsLineTerminator(s[j])
                 /\ k = Len(s) \/ IsLineTerminator(s[k + 1])
    IN  SubSeq(s, 1, n)

\* The table the claim describes for pairs that all have an "=": one entry
\* per key, from the last pair with that key.
SplitOnFirstEq(ps, valueOf(_)) ==
    /\ DOMAIN cliParams = {BeforeFirstEq(ps[i]) : i \in 1..Len(ps)}
    /\ \A i \in 1..Len(ps) :
          (\A j \in (i + 1)..Len(ps) : BeforeFirstEq(ps[j]) # BeforeFirstEq(ps[i]))
              => cliParams[BeforeFirstEq(ps[i])]
                     = [value |-> valueOf(ps[i]), type |-> "cli"]

\* C10 as claimed: every pair with an "=" (an empty key or an empty value
\* included) is split on its first "=" into key -> {value trimmed at the
\* end, type "cli"}, a later pair overwriting an earlier one with its key;
\* a pair with no "=" is a fatal error.
C10_EveryPairWithEqIsSplit ==
    pc # "new" =>
        LET ps == AllPieces(optionsParam)
        IN  IF \E i \in 1..Len(ps) : ~HasEq(ps[i])
            THEN pc = "threw"
            ELSE /\ pc = "idle"
                 /\ SplitOnFirstEq(ps, LAMBDA q : WithoutTrailingSpace(AfterFirstEq(q)))

\* A pair the regex matches from its first character: something before the
\* first "=", and after it a character that is not a line terminator.
WellFormedPair(piece) ==
    /\ HasEq(piece)
    /\ 1 < FirstEq(piece)
    /\ FirstEq(piece) < Len(piece)
    /\ ~IsLineTerminator(piece[FirstEq(piece) + 1])

\* C10 amended: when every pair has at least one character before its first
\* "=" and, after it, at least one character that is not a line terminator,
\* each pair gives key -> {value: what follows the first "=" up to the first
\* line terminator, trimmed at the end; type "cli"}, a later pair
\* overwriting an earlier one with its key; a list with a pair that has no
\* "=" is a fatal error.
C10_WellFormedPairsAreSplit ==
    pc # "new" =>
        LET ps == AllPieces(optionsParam)
        IN  /\ (\E i \in 1..Len(ps) : ~HasEq(ps[i])) => pc = "threw"
            /\ (\A i \in 1..Len(ps) : WellFormedPair(ps[i])) =>
                  /\ pc = "idle"
                  /\ SplitOnFirstEq(ps, LAMBDA q :
                         WithoutTrailingSpace(FirstLine(AfterFirstEq(q))))

\* Two well-formed pairs with one key were read; the later one, whose value
\* holds an "=", replaced the earlier, whose value had trailing whitespace.
C10_Witness ==
    /\ pc = "idle"
    /\ LET ps == AllPieces(optionsParam)
       IN  /\ Len(ps) = 2
           /\ WellFormedPair(ps[1]) /\ WellFormedPair(ps[2])
           /\ BeforeFirstEq(ps[1]) = BeforeFirstEq(ps[2])
           /\ IsWhiteSpace(ps[1][Len(ps[1])])
           /\ HasEq(AfterFirstEq(ps[2]))
           /\ cliParams[BeforeFirstEq(ps[2])].value = AfterFirstEq(ps[2])

(* ------------------- the declaration, as the host gave it ------------- *)

\* The secrets declaration of the service's configuration.
DeclaredSecrets ==
    IF serviceCustom = NoSecretBaker THEN Undefined ELSE serviceCustom.secrets

\* The custom output path of the service's configuration, else the default.
ConfiguredPath ==
    IF serviceCustom # NoSecretBaker /\ serviceCustom.filePath.t = "string"
    THEN serviceCustom.filePath.v
    ELSE "secret-baker-secrets.json"

\* The (logical name, backend path) pair a list element declares.
DeclaredByItem(item) ==
    IF item.t = "string" THEN [name |-> item.v, path |-> item.v]
    ELSE [name |-> GetProp(item, "name").v, path |-> GetProp(item, "path").v]

\* The declared secrets in declaration order.
DeclaredRefs(d) ==
    CASE d.t = "array"  -> [i \in DOMAIN d.v |-> DeclaredByItem(d.v[i])]
      [] d.t = "object" -> [i \in DOMAIN d.v |->
                               [name |-> d.v[i][1], path |-> d.v[i][2].v]]
      [] OTHER -> <<>>

Refs == DeclaredRefs(DeclaredSecrets)

Last(q) == q[Len(q)]

\* The lookup was answered "parameter not found".
IsNotFound(ans) == ~ans.ok /\ ans.statusCode = Num(400)

(* -------------------------------- C1 ---------------------------------- *)

\* C1: when the lookup of a declared secret is answered not-found, the run
\* is over with the error "Unable to load Secret <logical name>" and the
\* filesystem is what it was when the run began.
C1_AbsentSecretAbortsWithoutWrite ==
    (lastOp = "packageSecrets" /\ requests # <<>>
        /\ IsNotFound(Last(requests).answer)) =>
        /\ pc = "idle"
        /\ Len(requests) <= Len(Refs)
        /\ Last(requests).Name = Str(Refs[Len(requests)].path)
        /\ lastError = [kind    |-> "Error",
                        message |-> <<"Unable to load Secret ",
                                      Refs[Len(requests)].name>>]
        /\ files = filesBefore

\* The second of two declared secrets was not found, the first having been
\* found, with an earlier file at the output path.
C1_Witness ==
    /\ lastOp = "packageSecrets"
    /\ Len(requests) = 2
    /\ requests[1].answer.ok
    /\ IsNotFound(requests[2].answer)
    /\ Refs[2].name # Refs[2].path
    /\ filesBefore[secretsFile].exists

(* -------------------------------- C7 ---------------------------------- *)

\* C7: a not-found failure (status 400) makes no host error: the run ends
\* with the plain "Unable to load" error; a failure with any other or no
\* status ends the run with the host's error wrapping the backend message
\* and the filesystem untouched; a failed lookup is the last request of its
\* run (nothing is retried or looked up after it); a success hands the
\* returned parameter to the loop, which stores its Value and ARN.
C7_LookupErrorClassification ==
    (lastOp = "packageSecrets" /\ requests # <<>>) =>
        LET k == Len(requests)
            a == requests[k].answer
        IN  /\ \A i \in 1..(k - 1) : requests[i].answer.ok
            /\ \A i \in 1..k : /\ i <= Len(Refs)
                               /\ requests[i].Name = Str(Refs[i].path)
            /\ (~a.ok /\ a.statusCode = Num(400)) =>
                  /\ pc = "idle"
                  /\ lastError.kind = "Error"
            /\ (~a.ok /\ a.statusCode # Num(400)) =>
                  /\ pc = "idle"
                  /\ lastError = [kind    |-> "serverless.classes.Error",
                                  message |-> <<a.message>>]
                  /\ files = filesBefore
            /\ (a.ok /\ pc # "idle") =>
                  /\ GetProp(GetProp(Obj(secrets), Refs[k].name), "ciphertext")
                         = a.Parameter.Value
                  /\ GetProp(GetProp(Obj(secrets), Refs[k].name), "arn")
                         = a.Parameter.ARN

\* The second lookup of a run failed with no status code at all.
C7_Witness ==
    /\ lastOp = "packageSecrets"
    /\ Len(requests) = 2
    /\ ~requests[2].answer.ok
    /\ requests[2].answer.statusCode = Undefined
    /\ lastError.kind = "serverless.classes.Error"
    /\ filesBefore[secretsFile].exists

(* -------------------------------- C2 ---------------------------------- *)

\* JSON text read back: a string literal or an object of such values.
RECURSIVE ParseValue(_, _), ParseMembers(_, _)
ParseValue(tk, i) ==
    IF tk[i] = "\"" THEN [val |-> Str(tk[i + 1]), next |-> i + 3]
    ELSE IF tk[i + 1] = "}" THEN [val |-> Obj(<<>>), next |-> i + 2]
    ELSE LET m == ParseMembers(tk, i + 1)
         IN  [val |-> Obj(m.entries), next |-> m.next]

ParseMembers(tk, i) ==
    LET v == ParseValue(tk, i + 4)
    IN  IF tk[v.next] = ","
        THEN LET rest == ParseMembers(tk, v.next + 1)
             IN  [entries |-> <<<<tk[i + 1], v.val>>>> \o rest.entries,
                  next    |-> rest.next]
        ELSE [entries |-> <<<<tk[i + 1], v.val>>>>, next |-> v.next + 1]

JSONparse(tk) == ParseValue(tk, 1).val

\* The package step ended without an error.
PackageSucceeded ==
    lastOp = "packageSecrets" /\ pc = "idle" /\ lastError = NoError

\* The entry of the secrets file for the i-th declared secret is what the
\* i-th lookup returned.
EntryIsAnswer(parsed, i) ==
    LET entry == GetProp(parsed, Refs[i].name)
    IN  /\ entry.t = "object"
        /\ Keys(entry.v) = {"ciphertext", "arn"}
        /\ GetProp(entry, "ciphertext") = requests[i].answer.Parameter.Value
        /\ GetProp(entry, "arn") = requests[i].answer.Parameter.ARN

\* Every file but the one at path p is what it was when the run began.
OnlyChangedAt(p) == \A q \in Paths \ {p} : files[q] = filesBefore[q]

IncludeAtStart ==
    IF includeBefore = Undefined THEN <<>> ELSE includeBefore.v

\* C3: from the package trigger on, the include list is the list it found
\* (the empty list when there was none); the output path is its new last
\* element once, and only once, the step has ended without error, the file
\* then being on disk.
C3_IncludeOnlyAfterWrite ==
    lastOp = "packageSecrets" =>
        IF pc = "idle" /\ lastError = NoError
        THEN /\ include = Arr(Append(IncludeAtStart, secretsFile))
             /\ files[secretsFile].exists
        ELSE include = Arr(IncludeAtStart)

\* The write failed in a service that had no include list.
C3_Witness ==
    /\ lastOp = "packageSecrets"
    /\ pc = "idle"
    /\ lastError.kind = "FsError"
    /\ requests # <<>>
    /\ includeBefore = Undefined
    /\ include = Arr(<<>>)

(* -------------------------------- C4 ---------------------------------- *)

\* A step of cleanupPackageSecrets.
CleanupStep == pc = "idle" /\ pc' = "idle" /\ lastOp' = "cleanupPackageSecrets"

\* C4: a cleanup step leaves the include list alone and raises nothing;
\* after a package step that succeeded it finds the file at the output
\* path and leaves none there; with no file there it changes no file.
C4_CleanupRemovesFile ==
    [][CleanupStep =>
          /\ include' = include
          /\ lastError' = NoError
          /\ PackageSucceeded =>
                /\ files[secretsFile].exists
                /\ ~files'[secretsFile].exists
          /\ ~files[secretsFile].exists => files' = files]_vars

\* Cleanup removed the file a package step had written at the custom path.
C4_Witness ==
    /\ lastOp = "cleanupPackageSecrets"
    /\ secretsFile = "custom.json"
    /\ filesBefore[secretsFile].exists
    /\ filesBefore[secretsFile] # OldFile
    /\ ~files[secretsFile].exists
    /\ include # Undefined /\ Len(include.v) > 0

(* -------------------------------- C5 ---------------------------------- *)

PackageHookNames ==
    {"before:package:createDeploymentArtifacts",
     "before:deploy:function:packageFunction",
     "before:offline:start",
     "before:invoke:local:invoke"}

CleanupHookNames ==
    {"after:package:createDeploymentArtifacts",
     "after:deploy:function:packageFunction",
     "before:offline:start:end",
     "after:invoke:local:invoke"}

\* The hook table the claim describes for the parsed parameters.
HookTableAsClaimed ==
    /\ \A h \in PackageHookNames :
          h \in DOMAIN hooks /\ hooks[h] = "packageSecrets"
    /\ IF <<"secret-baker-cleanup">> \in DOMAIN cliParams
       THEN DOMAIN hooks = PackageHookNames
       ELSE /\ DOMAIN hooks = PackageHookNames \cup CleanupHookNames
            /\ \A h \in CleanupHookNames : hooks[h] = "cleanupPackageSecrets"

\* C5: an instance has the four packaging hooks, and the four cleanup
\* hooks exactly when the parsed parameters lack "secret-baker-cleanup";
\* once the constructor has run no step changes the hooks.
C5_HooksFixedAtConstruction ==
    /\ [](pc \notin {"new", "threw"} => HookTableAsClaimed)
    /\ [][pc # "new" => hooks' = hooks /\ cliParams' = cliParams]_vars

\* A package step ran on an instance built with the suppression key set
\* to a value that is empty once trimmed.
C5_Witness ==
    /\ lastOp = "packageSecrets"
    /\ <<"secret-baker-cleanup">> \in DOMAIN cliParams
    /\ cliParams[<<"secret-baker-cleanup">>].value = <<>>
    /\ DOMAIN hooks = PackageHookNames

(* -------------------------------- C6 ---------------------------------- *)

\* C6 as claimed, where `custom` names the service's block: with a string
\* or a number for the secrets declaration a package step ends in the
\* configuration error, no lookup having been made.
C6_ScalarDeclarationIsConfigError ==
    (lastOp = "packageSecrets" /\ custom = serviceCustom
        /\ DeclaredSecrets.t \in {"string", "number"}) =>
        /\ pc = "idle"
        /\ requests = <<>>
        /\ lastError =
               [kind    |-> "serverless.classes.Error",
                message |-> <<"Secret Baker configuration contained an unexpected value.">>]

(* -------------------------------- C8 ---------------------------------- *)

\* C8 as claimed: the path cleanup names, checks and deletes is the path
\* the package step writes to, the configured custom path or else the
\* default; cleanup changes no file at another path.
C8_CleanupPathIsOutputPath ==
    /\ writeReq.issued => writeReq.path = ConfiguredPath
    /\ lastOp = "cleanupPackageSecrets" =>
          /\ lastLog = <<"Cleaning up ", ConfiguredPath>>
          /\ ~files[ConfiguredPath].exists
          /\ OnlyChangedAt(ConfiguredPath)

(* -------------------------------- C9 ---------------------------------- *)

\* A declaration of the documented shapes: none, a list of strings, a
\* mapping.
ValidDeclaration(d) ==
    \/ d.t \in {"undefined", "object"}
    \/ d.t = "array" /\ \A i \in DOMAIN d.v : d.v[i].t = "string"

\* The normalized list as getSecretsConfig returns it, for a declared list.
RefObjects(refs) ==
    [i \in DOMAIN refs |->
        [t |-> "object",
         v |-> <<<<"name", [t |-> "string", v |-> refs[i].name]>>,
                 <<"path", [t |-> "string", v |-> refs[i].path]>>>>]]

\* C9 as claimed: for a valid declaration the package step goes on from
\* getSecretsConfig with one SecretRef per declared entry, in order: it
\* awaits the first lookup with exactly that list pending, or, for an
\* empty list, goes straight to writing the empty object.
C9_ValidDeclarationIsNormalized ==
    (lastOp = "packageSecrets" /\ requests = <<>>
        /\ ValidDeclaration(DeclaredSecrets)) =>
        IF Refs = <<>>
        THEN \/ pc = "awaitWrite" /\ writeReq.data = <<"{", "}">>
             \/ pc = "idle" /\ lastError.kind \in {"none", "FsError"}
        ELSE pc = "awaitSsm" /\ pending = RefObjects(Refs)

====
